---- MODULE Spec2Model ----
(***************************************************************************)
(* Slate Pad: the infinite canvas' camera (pan/zoom gestures, camera       *)
(* animation, two-tier debounced persistence of the view), the viewport    *)
(* culler and the node placement engine.                                   *)
(*                                                                         *)
(* Numbers.  The program computes with JavaScript numbers.  They are       *)
(* modelled as exact rationals [n |-> numerator, d |-> denominator] in     *)
(* lowest terms with d > 0, extended with the IEEE special values the      *)
(* program can produce: NaN = 0/0, +Infinity = 1/0, -Infinity = -1/0.      *)
(* Rounding of the 53-bit mantissa is not modelled: what the model calls   *)
(* equal the program computes equal up to floating-point tolerance.        *)
(*                                                                         *)
(* Closures.  React re-creates every handler after each state change, so   *)
(* a handler reads the state of the latest render.  Callbacks that live    *)
(* longer (setTimeout bodies, animation callbacks, the document mouseup    *)
(* listener) keep the values they captured when they were created.         *)
(*                                                                         *)
(* Time.  Timeouts and animation frames are delivered by the browser: a     *)
(* timeout fires some time after its delay (never before a timeout with a  *)
(* shorter delay set in the same call), a frame runs every animation       *)
(* callback that was requested, oldest first.  Frames may be throttled, so *)
(* the model does not order frames against timeouts.  Consecutive frames    *)
(* of the model are one quarter of the animation's duration apart.         *)
(***************************************************************************)
EXTENDS Integers, Sequences, FiniteSets, TLC

\* ------------------------------------------------------------------ bounds
\* User input events (gestures, wheel, commands) in one behaviour.
MaxEvents == 3
\* Fingers on the surface at the same time.
MaxTouches == 2

\* ------------------------------------------------------ JavaScript numbers
Abs(i) == IF i < 0 THEN -i ELSE i

Sign(i) == IF i < 0 THEN -1 ELSE IF i > 0 THEN 1 ELSE 0

RECURSIVE GCD(_, _)
GCD(a, b) == IF b = 0 THEN a ELSE GCD(b, a % b)

\* The number n/d in canonical form; d = 0 gives NaN or a signed infinity.
Rat(n, d) ==
  IF d = 0 THEN [n |-> Sign(n), d |-> 0]
  ELSE LET g == GCD(Abs(n), Abs(d))
       IN  [n |-> (Sign(d) * n) \div g, d |-> Abs(d) \div g]

Num(i) == [n |-> i, d |-> 1]

NaN == [n |-> 0, d |-> 0]

Infinity == [n |-> 1, d |-> 0]

IsNaN(a) == a.d = 0 /\ a.n = 0

IsFinite(a) == a.d # 0

\* a * b
Mul(a, b) ==
  IF a.d = 0 \/ b.d = 0 THEN Rat(Sign(a.n) * Sign(b.n), 0)
  ELSE LET g1 == GCD(Abs(a.n), b.d)
           g2 == GCD(Abs(b.n), a.d)
       IN  Rat((a.n \div g1) * (b.n \div g2), (a.d \div g2) * (b.d \div g1))

\* a / b
Div(a, b) ==
  IF IsNaN(a) \/ IsNaN(b) THEN NaN
  ELSE IF b.d = 0 THEN (IF a.d = 0 THEN NaN ELSE Num(0))
  ELSE IF b.n = 0 THEN Rat(Sign(a.n), 0)
  ELSE Mul(a, Rat(b.d, b.n))

\* a + b
Add(a, b) ==
  IF IsNaN(a) \/ IsNaN(b) THEN NaN
  ELSE IF a.d = 0 /\ b.d = 0 THEN (IF a.n = b.n THEN a ELSE NaN)
  ELSE IF a.d = 0 THEN a
  ELSE IF b.d = 0 THEN b
  ELSE LET g == GCD(a.d, b.d)
           l == (a.d \div g) * b.d
       IN  Rat(a.n * (l \div a.d) + b.n * (l \div b.d), l)

\* -a
Neg(a) == [n |-> -a.n, d |-> a.d]

\* a - b
Sub(a, b) == Add(a, Neg(b))

\* a < b (false when either is NaN)
Lt(a, b) ==
  IF IsNaN(a) \/ IsNaN(b) THEN FALSE
  ELSE IF a.d = 0 /\ b.d = 0 THEN a.n < b.n
  ELSE IF a.d = 0 THEN a.n < 0
  ELSE IF b.d = 0 THEN b.n > 0
  ELSE LET g == GCD(a.d, b.d)
           l == (a.d \div g) * b.d
       IN  a.n * (l \div a.d) < b.n * (l \div b.d)

\* a <= b (false when either is NaN)
Le(a, b) == ~IsNaN(a) /\ ~IsNaN(b) /\ ~Lt(b, a)

\* a === b on numbers (NaN equals nothing)
NumEq(a, b) == ~IsNaN(a) /\ ~IsNaN(b) /\ a = b

\* Math.min(a, b), Math.max(a, b): NaN when either argument is NaN
MathMin(a, b) == IF IsNaN(a) \/ IsNaN(b) THEN NaN ELSE IF Lt(b, a) THEN b ELSE a

MathMax(a, b) == IF IsNaN(a) \/ IsNaN(b) THEN NaN ELSE IF Lt(a, b) THEN b ELSE a

\* Largest r in lo..hi with r * r <= n (by bisection).
RECURSIVE ISqrtIn(_, _, _)
ISqrtIn(n, lo, hi) ==
  IF lo >= hi THEN lo
  ELSE LET mid == (lo + hi + 1) \div 2
       IN  IF mid * mid <= n THEN ISqrtIn(n, mid, hi) ELSE ISqrtIn(n, lo, mid - 1)

\* Math.hypot(dx, dy) for integer arguments.  The touch points of the model
\* (TouchPts) lie on one horizontal line, where the square root is exact.
MathHypot(dx, dy) == Num(ISqrtIn(dx * dx + dy * dy, 0, Abs(dx) + Abs(dy)))

\* A point {x, y} with numeric coordinates.
Pt(x, y) == [x |-> x, y |-> y]

IntPt(i, j) == Pt(Num(i), Num(j))

\* ------------------------------------------------------- program constants
\* Math.min(Math.max(s, 0.1), 5)
MIN_SCALE == Rat(1, 10)

MAX_SCALE == Num(5)

\* Wheel and button zoom factors.
ZoomOutFactor == Rat(9, 10)

ZoomInFactor == Rat(11, 10)

\* Frames of the model in the animation's duration (600 ms).
AnimFrames == 4

\* containerRef.current.getBoundingClientRect(): the container is
\* "fixed inset-0", so it starts at the window's origin.
ContainerRect == [left |-> 0, top |-> 0, width |-> 800, height |-> 600]

\* null, for a state cell that holds a number or null.
Null == [n |-> 0, d |-> -1]

\* JavaScript truthiness of a number-or-null: null, 0 and NaN are falsy.
Truthy(a) == a # Null /\ ~IsNaN(a) /\ a.n # 0

\* a || b
OrElse(a, b) == IF Truthy(a) THEN a ELSE b

\* ------------------------------------------------------------ input values
\* clientX/clientY of mouse and wheel events.
MousePts == { [x |-> 100, y |-> 100], [x |-> 300, y |-> 200] }

\* clientX/clientY of touch points (all on one line, see MathHypot).
TouchPts == { [x |-> 100, y |-> 300], [x |-> 110, y |-> 300], [x |-> 120, y |-> 300],
              [x |-> 700, y |-> 300] }

\* deltaX/deltaY of wheel events.
WheelDeltas == { [dx |-> 0, dy |-> 100], [dx |-> 30, dy |-> -50] }

\* World points the minimap asks to navigate to.
NavTargets == { [x |-> 200, y |-> 100], [x |-> -400, y |-> 0] }

\* Lists of 1..k touch points.
TouchLists(k) == UNION { [1..m -> TouchPts] : m \in 1..k }

\* --------------------------------------------------------------- the state
VARIABLES
  scale,                 \* useState(1)
  position,              \* useState({x: 0, y: 0})
  isDragging,            \* useState(false)
  dragStart,             \* useState({x: 0, y: 0})
  initialPinchDistance,  \* useState<number | null>(null)
  initialScale,          \* useState(1)
  uiTimer,               \* <<>> or <<config>>: the pending 150 ms timeout
  dbTimer,               \* <<>> or <<config>>: the pending 1500 ms timeout
  anims,                 \* the animations in flight, oldest first
  leaveListeners,        \* document 'mouseup' listeners added by handleMouseLeave
  persistCalls,          \* the configs updateViewConfig was called with, in order
  writes,                \* the store's answer to each call: "pending", "ok" or "failed"
  toasts,                \* the notifications handleError has shown, in order
  stored,                \* the store: the view_config column of the canvas row
  canvas,                \* the data of the canvas query: the row as last fetched, or Null
  isInitialized,         \* useState(false)
  content,               \* text node: useState(node.content || '')
  lastSavedContent,      \* text node: useState(node.content || '')
  lastSaveTime,          \* text node: lastSaveTimeRef.current
  contentUpdateTimeout,  \* text node: <<>> or the pending 500 ms timeout
  storedContent,         \* the store: the content column of the node row
  now,                   \* environment: the clock, in units of TimeUnit ms
  nEdits,                \* content edits so far (bounded by MaxEdits)
  touches,               \* environment: the touch points now on the surface
  nEvents,               \* input events so far (bounded by MaxEvents)
  nextAnimId,            \* history: animations started so far
  lastStarted,           \* history: the animation started last (Null: none yet)
  lastOp,                \* history: the handler that ran last
  lastAnchor,            \* history: the screen point the last zoom was anchored at
  gestureSince,          \* history: ids of the animations in flight when a gesture began
  call                   \* the pure function under study: its arguments and result

nodeVars == << content, lastSavedContent, lastSaveTime, contentUpdateTimeout,
              storedContent, now, nEdits >>

vars == << scale, position, isDragging, dragStart, initialPinchDistance, initialScale,
           uiTimer, dbTimer, anims, leaveListeners, persistCalls, writes, toasts, touches,
           nEvents, nextAnimId, lastStarted, lastOp, lastAnchor, gestureSince, stored, canvas,
           isInitialized, nodeVars, call >>

gestureVars == << isDragging, dragStart, initialPinchDistance, initialScale >>

timerVars == << uiTimer, dbTimer >>

storeVars == << writes, toasts >>

seedVars == << stored, canvas, isInitialized >>

canvasVars == << scale, position, isDragging, dragStart, initialPinchDistance,
                initialScale, uiTimer, dbTimer, anims, leaveListeners, persistCalls,
                writes, toasts, touches, nEvents, nextAnimId, lastStarted, lastOp, lastAnchor,
                gestureSince, stored, canvas, isInitialized, nodeVars >>

NoCall == [fn |-> "none"]

Origin == IntPt(0, 0)

NoAnchor == IntPt(0, 0)

\* Date.now() at page load, in units of TimeUnit ms: any value more than
\* SaveSpacing above 0.
PageLoadTime == 5

\* The text node as mounted: nothing edited, nothing pending; the ref
\* lastSaveTimeRef starts at 0.
NodeInit ==
  /\ content = ""
  /\ lastSavedContent = ""
  /\ lastSaveTime = 0
  /\ contentUpdateTimeout = << >>
  /\ storedContent = ""
  /\ now = PageLoadTime
  /\ nEdits = 0

CanvasInit ==
  /\ NodeInit
  /\ scale = Num(1)
  /\ position = Origin
  /\ isDragging = FALSE
  /\ dragStart = Origin
  /\ initialPinchDistance = Null
  /\ initialScale = Num(1)
  /\ uiTimer = << >>
  /\ dbTimer = << >>
  /\ anims = << >>
  /\ leaveListeners = << >>
  /\ persistCalls = << >>
  /\ writes = << >>
  /\ toasts = << >>
  /\ isInitialized = FALSE
  /\ touches = << >>
  /\ nEvents = 0
  /\ nextAnimId = 0
  /\ lastStarted = Null
  /\ lastOp = "init"
  /\ lastAnchor = NoAnchor
  /\ gestureSince = {}

\* The canvas row is loaded and holds no view config yet.
LoadedBlank == stored = Null /\ canvas = [view_config |-> Null]

Init == CanvasInit /\ LoadedBlank /\ call = NoCall

\* --------------------------------------------------------------- Transform
\* (p - translation) / scale
ScreenToWorld(p, s, t) == Pt(Div(Sub(p.x, t.x), s), Div(Sub(p.y, t.y), s))

\* w * scale + translation
WorldToScreen(w, s, t) == Pt(Add(Mul(w.x, s), t.x), Add(Mul(w.y, s), t.y))

\* The translation that keeps the world point under the screen point c fixed
\* when the scale goes from the current one to newScale:
\*   world = (c - position) / scale;  newPosition = c - world * newScale
AnchoredPosition(c, newScale) ==
  LET worldX == Div(Sub(c.x, position.x), scale)
      worldY == Div(Sub(c.y, position.y), scale)
  IN  Pt(Sub(c.x, Mul(worldX, newScale)), Sub(c.y, Mul(worldY, newScale)))

\* Math.min(Math.max(s, 0.1), 5)
ClampScale(s) == MathMin(MathMax(s, MIN_SCALE), MAX_SCALE)

ViewConfig(z, p) == [zoom |-> z, position |-> p]

\* debouncedUpdateViewConfig(config): clears both timeouts and sets both anew.
debouncedUpdateViewConfig(config) ==
  /\ uiTimer' = << config >>
  /\ dbTimer' = << config >>

\* History: a user gesture begins; remember the animations then in flight.
GestureBegins == gestureSince' = gestureSince \cup { anims[i].id : i \in 1..Len(anims) }

Event(op) == /\ nEvents < MaxEvents
             /\ nEvents' = nEvents + 1
             /\ lastOp' = op
             /\ UNCHANGED << seedVars, nodeVars, call >>

\* ------------------------------------------------------------------- wheel
\* handleWheel with ctrlKey or metaKey: zoom about the cursor.
HandleWheelZoom(client, deltaY) ==
  LET delta == IF deltaY > 0 THEN ZoomOutFactor ELSE ZoomInFactor
      newScale == ClampScale(Mul(scale, delta))
      cursor == Pt(Num(client.x - ContainerRect.left), Num(client.y - ContainerRect.top))
      newPosition == AnchoredPosition(cursor, newScale)
  IN  /\ Event("wheelZoom")
      /\ scale' = newScale
      /\ position' = newPosition
      /\ debouncedUpdateViewConfig(ViewConfig(newScale, newPosition))
      /\ lastAnchor' = cursor
      /\ GestureBegins
      /\ UNCHANGED << gestureVars, anims, leaveListeners, persistCalls, storeVars, touches,
                      nextAnimId, lastStarted >>

\* handleWheel without modifier, adding the wheel deltas to the translation.
HandleWheelPanAdding(w) ==
  LET newPosition == Pt(Add(position.x, Num(w.dx)), Add(position.y, Num(w.dy)))
  IN  /\ Event("wheelPan")
      /\ position' = newPosition
      /\ debouncedUpdateViewConfig(ViewConfig(scale, newPosition))
      /\ GestureBegins
      /\ UNCHANGED << scale, gestureVars, anims, leaveListeners, persistCalls, storeVars, touches,
                      nextAnimId, lastStarted, lastAnchor >>

\* handleWheel without modifier: pan by the wheel deltas.
HandleWheelPan(w) ==
  LET newPosition == Pt(Sub(position.x, Num(w.dx)), Sub(position.y, Num(w.dy)))
  IN  /\ Event("wheelPan")
      /\ position' = newPosition
      /\ debouncedUpdateViewConfig(ViewConfig(scale, newPosition))
      /\ GestureBegins
      /\ UNCHANGED << scale, gestureVars, anims, leaveListeners, persistCalls, storeVars, touches,
                      nextAnimId, lastStarted, lastAnchor >>

\* ------------------------------------------------------------ zoom buttons
ZoomButton(op, newScale) ==
  LET centre == Pt(Rat(ContainerRect.width, 2), Rat(ContainerRect.height, 2))
      newPosition == AnchoredPosition(centre, newScale)
  IN  /\ Event(op)
      /\ scale' = newScale
      /\ position' = newPosition
      /\ debouncedUpdateViewConfig(ViewConfig(newScale, newPosition))
      /\ lastAnchor' = centre
      /\ UNCHANGED << gestureVars, anims, leaveListeners, persistCalls, storeVars, touches,
                      nextAnimId, lastStarted, gestureSince >>

\* handleZoomIn: Math.min(scale * 1.1, 5)
handleZoomIn == ZoomButton("zoomIn", MathMin(Mul(scale, ZoomInFactor), MAX_SCALE))

\* handleZoomOut: Math.max(scale * 0.9, 0.1)
handleZoomOut == ZoomButton("zoomOut", MathMax(Mul(scale, ZoomOutFactor), MIN_SCALE))

\* ------------------------------------------------------------------- mouse
\* handleMouseDown: left button, on the canvas itself.
handleMouseDown(client, button, onCanvas) ==
  /\ button = 0 /\ onCanvas
  /\ Event("mouseDown")
  /\ isDragging' = TRUE
  /\ dragStart' = Pt(Sub(Num(client.x), position.x), Sub(Num(client.y), position.y))
  /\ GestureBegins
  /\ UNCHANGED << scale, position, initialPinchDistance, initialScale, timerVars, anims,
                  leaveListeners, persistCalls, storeVars, touches, nextAnimId, lastStarted,
                  lastAnchor >>

\* handleMouseMove while dragging.
handleMouseMove(client) ==
  /\ isDragging
  /\ Event("mouseMove")
  /\ position' = Pt(Sub(Num(client.x), dragStart.x), Sub(Num(client.y), dragStart.y))
  /\ UNCHANGED << scale, gestureVars, timerVars, anims, leaveListeners, persistCalls, storeVars,
                  touches, nextAnimId, lastStarted, lastAnchor, gestureSince >>

\* handleMouseLeave while dragging: adds a one-shot document 'mouseup'
\* listener that captures the scale and position of this render.
handleMouseLeave ==
  /\ isDragging
  /\ Event("mouseLeave")
  /\ leaveListeners' = Append(leaveListeners, ViewConfig(scale, position))
  /\ UNCHANGED << scale, position, gestureVars, timerVars, anims, persistCalls, storeVars, touches,
                  nextAnimId, lastStarted, lastAnchor, gestureSince >>

\* A mouse button is released.  Over the canvas (inside) React runs
\* handleMouseUp; then every document listener added by handleMouseLeave runs
\* once, in the order added, each calling debouncedUpdateViewConfig with the
\* values it captured, so the last one decides the timers.
MouseUp(inside) ==
  LET runsHandler == inside /\ isDragging
      n == Len(leaveListeners)
  IN  /\ ~(~runsHandler /\ n = 0)
      /\ Event("mouseUp")
      /\ isDragging' = FALSE
      /\ IF n > 0 THEN debouncedUpdateViewConfig(leaveListeners[n])
         ELSE debouncedUpdateViewConfig(ViewConfig(scale, position))
      /\ leaveListeners' = << >>
      /\ UNCHANGED << scale, position, dragStart, initialPinchDistance, initialScale,
                      anims, persistCalls, storeVars, touches, nextAnimId, lastStarted,
                      lastAnchor, gestureSince >>

\* ------------------------------------------------------------------- touch
\* calculateDistance(touches): the distance between the first two touches.
calculateDistance(ts) == MathHypot(ts[1].x - ts[2].x, ts[1].y - ts[2].y)

\* touchstart: fingers in added come down; e.touches is every finger now on
\* the surface.  onCanvas: e.target === e.currentTarget.  At most `most`
\* fingers are on the surface.
TouchStart(added, onCanvas, most) ==
  LET ts == touches \o added
  IN  /\ Len(ts) <= most
      /\ Event("touchStart")
      /\ touches' = ts
      /\ GestureBegins
      /\ IF Len(ts) = 1 /\ onCanvas
         THEN /\ isDragging' = TRUE
              /\ dragStart' = Pt(Sub(Num(ts[1].x), position.x), Sub(Num(ts[1].y), position.y))
              /\ UNCHANGED << initialPinchDistance, initialScale >>
         ELSE IF Len(ts) = 2
         THEN /\ initialPinchDistance' = calculateDistance(ts)
              /\ initialScale' = scale
              /\ UNCHANGED << isDragging, dragStart >>
         ELSE UNCHANGED gestureVars
      /\ UNCHANGED << scale, position, timerVars, anims, leaveListeners, persistCalls, storeVars,
                      nextAnimId, lastStarted, lastAnchor >>

handleTouchStart(added, onCanvas) == TouchStart(added, onCanvas, MaxTouches)

\* The midpoint of the first two touches.
TouchCentre(ts) == Pt(Rat(ts[1].x + ts[2].x, 2), Rat(ts[1].y + ts[2].y, 2))

\* The pinch scale computed from the scale of the latest render instead of
\* the scale captured at the pinch's start.
PinchScaleFromCurrent(ts) ==
  LET currentDistance == calculateDistance(ts)
      pinchRatio == Div(currentDistance, OrElse(initialPinchDistance, currentDistance))
  IN  ClampScale(Mul(scale, pinchRatio))

\* The scale handleTouchMove computes for two touches:
\*   pinchRatio = currentDistance / (initialPinchDistance || currentDistance)
PinchScale(ts) ==
  LET currentDistance == calculateDistance(ts)
      pinchRatio == Div(currentDistance, OrElse(initialPinchDistance, currentDistance))
  IN  ClampScale(Mul(initialScale, pinchRatio))

\* touchmove: the fingers move to ts (as many as before).
handleTouchMove(ts) ==
  /\ Len(ts) = Len(touches) /\ ts # touches
  /\ Event(IF Len(ts) = 2 THEN "pinchMove" ELSE "touchMove")
  /\ touches' = ts
  /\ IF Len(ts) = 2
     THEN /\ scale' = PinchScale(ts)
          /\ position' = AnchoredPosition(TouchCentre(ts), PinchScale(ts))
          /\ lastAnchor' = TouchCentre(ts)
     ELSE IF Len(ts) = 1 /\ isDragging
     THEN /\ position' = Pt(Sub(Num(ts[1].x), dragStart.x), Sub(Num(ts[1].y), dragStart.y))
          /\ UNCHANGED << scale, lastAnchor >>
     ELSE UNCHANGED << scale, position, lastAnchor >>
  /\ UNCHANGED << gestureVars, timerVars, anims, leaveListeners, persistCalls, storeVars,
                  nextAnimId, lastStarted, gestureSince >>

\* touchend: the fingers in lifted (indices into touches) go up; the handler
\* does not look at the touches that remain.
handleTouchEnd(lifted) ==
  /\ lifted # {} /\ lifted \subseteq 1..Len(touches)
  /\ Event("touchEnd")
  /\ touches' = SelectSeq([i \in 1..Len(touches) |->
                             IF i \in lifted THEN [x |-> -1, y |-> -1] ELSE touches[i]],
                          LAMBDA t : t.x >= 0)
  /\ initialPinchDistance' = Null
  /\ isDragging' = FALSE
  /\ IF initialPinchDistance # Null \/ isDragging
     THEN debouncedUpdateViewConfig(ViewConfig(scale, position))
     ELSE UNCHANGED timerVars
  /\ UNCHANGED << scale, position, dragStart, initialScale, anims, leaveListeners,
                  persistCalls, storeVars, nextAnimId, lastStarted, lastAnchor, gestureSince >>

\* ------------------------------------------------------------- persistence
\* updateViewConfig(config): the store's write of the canvas' view_config is
\* issued and awaited; the caller goes on without waiting for it.
updateViewConfig(config) ==
  IF canvas = Null
  THEN UNCHANGED << persistCalls, writes >>
  ELSE /\ persistCalls' = Append(persistCalls, config)
       /\ writes' = Append(writes, "pending")

\* The 150 ms timeout fires: setScale(config.zoom); setPosition(config.position).
UiTimerFires ==
  /\ uiTimer # << >>
  /\ scale' = uiTimer[1].zoom
  /\ position' = uiTimer[1].position
  /\ uiTimer' = << >>
  /\ lastOp' = "uiTimer"
  /\ UNCHANGED << gestureVars, dbTimer, anims, leaveListeners, persistCalls, storeVars, touches,
                  nEvents, nextAnimId, lastStarted, lastAnchor, gestureSince, seedVars, nodeVars,
                  call >>

\* The 1500 ms timeout fires: updateViewConfig(config).  Both timeouts are set
\* by the same call, so the 150 ms one has fired before.
DbTimerFires ==
  /\ dbTimer # << >>
  /\ uiTimer = << >>
  /\ updateViewConfig(dbTimer[1])
  /\ dbTimer' = << >>
  /\ lastOp' = "dbTimer"
  /\ UNCHANGED << scale, position, gestureVars, uiTimer, anims, leaveListeners, toasts,
                  touches, nEvents, nextAnimId, lastStarted, lastAnchor, gestureSince, seedVars,
                  nodeVars, call >>

\* handleError(error, customDetails) with no reporting at all.
handleErrorSilent(customDetails) == UNCHANGED toasts

\* handleError(error, customDetails): the custom title and message override
\* the ones derived from the error, and a destructive toast shows them.
handleError(customDetails) ==
  toasts' = Append(toasts, [title |-> customDetails.title,
                            description |-> customDetails.message,
                            variant |-> "destructive"])

\* The store answers a pending write without an error: the await returns and
\* updateViewConfig ends.
StoreSucceeds ==
  /\ \E i \in 1..Len(writes) : /\ writes[i] = "pending"
                               /\ writes' = [writes EXCEPT ![i] = "ok"]
                               /\ stored' = persistCalls[i]
  /\ UNCHANGED << scale, position, gestureVars, timerVars, anims, leaveListeners,
                  persistCalls, toasts, touches, nEvents, nextAnimId, lastStarted, lastOp,
                  lastAnchor,
                  gestureSince, canvas, isInitialized, nodeVars, call >>

\* The store answers a pending write with an error, or the request is
\* rejected: the catch block hands the error to handleError.
StoreFails ==
  /\ \E i \in 1..Len(writes) : /\ writes[i] = "pending"
                               /\ writes' = [writes EXCEPT ![i] = "failed"]
  /\ handleError([title |-> "View Update Failed",
                  message |-> "Could not save canvas view state"])
  /\ UNCHANGED << scale, position, gestureVars, timerVars, anims, leaveListeners,
                  persistCalls, touches, nEvents, nextAnimId, lastStarted, lastOp, lastAnchor,
                  gestureSince, seedVars, nodeVars, call >>

\* --------------------------------------------------------------- animation
\* easeOutCubic: (--t) * t * t + 1
easeOutCubic(t) == LET u == Sub(t, Num(1)) IN Add(Mul(Mul(u, u), u), Num(1))

\* Math.min(elapsedTime / duration, 1)
Progress(elapsed) == MathMin(Rat(elapsed, AnimFrames), Num(1))

\* start + (target - start) * progress
Lerp(start, target, progress) == Add(start, Mul(Sub(target, start), progress))

\* animateToPosition(targetPosition): captures the position and scale of this
\* render and requests the first animation frame.  No caller passes a
\* targetScale, so finalScale is the captured scale and the scale is not
\* animated.  History: goal is the world point the caller navigates to.
animateToPosition(targetPosition, goal) ==
  /\ anims' = Append(anims, [id |-> nextAnimId + 1,
                             startPosition |-> position,
                             targetPosition |-> targetPosition,
                             finalScale |-> scale,
                             elapsed |-> 0,
                             goal |-> goal])
  /\ nextAnimId' = nextAnimId + 1
  /\ lastStarted' = [config |-> ViewConfig(scale, targetPosition),
                     overlaps |-> anims # << >>]

\* handleNavigateToPosition(x, y): the minimap's navigation.
handleNavigateToPosition(w) ==
  /\ Event("navigateToPosition")
  /\ animateToPosition(Pt(Mul(Num(-w.x), scale), Mul(Num(-w.y), scale)), IntPt(w.x, w.y))
  /\ UNCHANGED << scale, position, gestureVars, timerVars, leaveListeners, persistCalls, storeVars,
                  touches, lastAnchor, gestureSince >>

\* Whether the animation's callback, run at this elapsed time, is its last.
Completes(a) == ~Lt(Progress(a.elapsed), Num(1))

\* What animationFrame's onProgress (and, at progress 1, onComplete) passes
\* to setPosition.
FramePosition(a) ==
  LET eased == easeOutCubic(Progress(a.elapsed))
  IN  IF Completes(a) THEN a.targetPosition
      ELSE Pt(Lerp(a.startPosition.x, a.targetPosition.x, eased),
              Lerp(a.startPosition.y, a.targetPosition.y, eased))

\* One browser frame in which the completion handlers run newest first, so
\* that the oldest completing animation decides the timers.
AnimationFramesNewestFirst ==
  LET stepped == [i \in 1..Len(anims) |-> [anims[i] EXCEPT !.elapsed = @ + 1]]
      done == { i \in 1..Len(anims) : Completes(stepped[i]) }
      lastDone == CHOOSE i \in done : \A j \in done : i <= j
  IN  /\ anims # << >>
      /\ lastOp' = "animationFrames"
      /\ position' = FramePosition(stepped[Len(anims)])
      /\ anims' = SelectSeq(stepped, LAMBDA a : ~Completes(a))
      /\ IF done # {}
         THEN debouncedUpdateViewConfig(
                ViewConfig(stepped[lastDone].finalScale, stepped[lastDone].targetPosition))
         ELSE UNCHANGED timerVars
      /\ UNCHANGED << scale, gestureVars, leaveListeners, persistCalls, storeVars, touches, nEvents,
                      nextAnimId, lastStarted, lastAnchor, gestureSince, seedVars, nodeVars, call >>

\* One browser frame: animationFrame(currentTime) of every animation in
\* flight runs, oldest first.  Each calls setPosition, so the newest one's
\* value is the one rendered; one that reached progress 1 calls onComplete
\* (debouncedUpdateViewConfig with its own target) and requests no further
\* frame.
AnimationFrames ==
  LET stepped == [i \in 1..Len(anims) |-> [anims[i] EXCEPT !.elapsed = @ + 1]]
      done == { i \in 1..Len(anims) : Completes(stepped[i]) }
      lastDone == CHOOSE i \in done : \A j \in done : j <= i
  IN  /\ anims # << >>
      /\ lastOp' = "animationFrames"
      /\ position' = FramePosition(stepped[Len(anims)])
      /\ anims' = SelectSeq(stepped, LAMBDA a : ~Completes(a))
      /\ IF done # {}
         THEN debouncedUpdateViewConfig(
                ViewConfig(stepped[lastDone].finalScale, stepped[lastDone].targetPosition))
         ELSE UNCHANGED timerVars
      /\ UNCHANGED << scale, gestureVars, leaveListeners, persistCalls, storeVars, touches, nEvents,
                      nextAnimId, lastStarted, lastAnchor, gestureSince, seedVars, nodeVars, call >>

\* ----------------------------------------------------------- specification
Next ==
  \/ \E c \in MousePts, dy \in {-100, 100} : HandleWheelZoom(c, dy)
  \/ \E w \in WheelDeltas : HandleWheelPan(w)
  \/ handleZoomIn
  \/ handleZoomOut
  \/ \E c \in MousePts, b \in {0, 2}, onCanvas \in BOOLEAN : handleMouseDown(c, b, onCanvas)
  \/ \E c \in MousePts : handleMouseMove(c)
  \/ handleMouseLeave
  \/ \E inside \in BOOLEAN : MouseUp(inside)
  \/ \E added \in TouchLists(2), onCanvas \in BOOLEAN : handleTouchStart(added, onCanvas)
  \/ \E ts \in TouchLists(MaxTouches) : handleTouchMove(ts)
  \/ \E lifted \in SUBSET (1..MaxTouches) : handleTouchEnd(lifted)
  \/ \E w \in NavTargets : handleNavigateToPosition(w)
  \/ AnimationFrames
  \/ UiTimerFires
  \/ DbTimerFires
  \/ StoreSucceeds
  \/ StoreFails

Spec == Init /\ [][Next]_vars

\* ------------------------------------------------------------------ claims
ScaleInRange(s) == Le(MIN_SCALE, s) /\ Le(s, MAX_SCALE)

PtEq(p, q) == NumEq(p.x, q.x) /\ NumEq(p.y, q.y)

FinitePt(p) == IsFinite(p.x) /\ IsFinite(p.y)

ZoomOps == { "wheelZoom", "pinchMove", "zoomIn", "zoomOut" }

\* An input event handler ran in this step.
EventStep == nEvents' = nEvents + 1

\* C1: after any sequence of wheel zooms, pinch moves and zoom button
\* commands, 0.1 <= scale <= 5.
C1_ScaleClamped == lastOp \in ZoomOps => ScaleInRange(scale)

\* C2: every zoom operation leaves the world point under its anchor where it
\* was: screenToWorld(anchor) is the same before and after the operation.
C2_AnchorPreserved ==
  [][ (EventStep /\ lastOp' \in ZoomOps /\ ScaleInRange(scale) /\ FinitePt(position))
        => PtEq(ScreenToWorld(lastAnchor', scale, position),
                ScreenToWorld(lastAnchor', scale', position')) ]_vars

AnimIds(as) == { as[i].id : i \in 1..Len(as) }

\* C3: once a user gesture has begun, a frame of an animation that was in
\* flight at that moment is a no-op: it changes neither scale nor translation
\* and its completion handler (the persistence call) does not run.
C3_GestureCancelsAnimation ==
  [][ (lastOp' = "animationFrames" /\ AnimIds(anims) \subseteq gestureSince)
        => (scale' = scale /\ position' = position /\ UNCHANGED timerVars) ]_vars

\* C4: an animation superseded by a newer animateTo never completes: while a
\* newer animation is still in flight, no frame runs a completion handler
\* (which would call the persistence with the older animation's target).
C4_SupersededAnimationInert ==
  [][ (lastOp' = "animationFrames" /\ anims' # << >>) => UNCHANGED timerVars ]_vars

\* C5: the remote tier's call of updateViewConfig carries the zoom and
\* position of the last Transform change, that is, the Transform at the time
\* of the call.
C5_PersistsLastChange ==
  lastOp = "dbTimer" => persistCalls[Len(persistCalls)] = ViewConfig(scale, position)

GestureActive == isDragging \/ initialPinchDistance # Null

\* A gesture ends (pointer up, touch end) or an animation completes.
GestureEndOrCompletion ==
  \/ EventStep /\ lastOp' \in { "mouseUp", "touchEnd" } /\ GestureActive
  \/ lastOp' = "animationFrames" /\ Len(anims') < Len(anims)

\* C6: on gesture end and on animation completion the current Transform is
\* persisted in that same step, and no debounce timer is left pending.
C6_FlushOnGestureEnd ==
  [][ GestureEndOrCompletion
        => /\ Len(persistCalls') = Len(persistCalls) + 1
           /\ persistCalls'[Len(persistCalls')] = ViewConfig(scale', position')
           /\ uiTimer' = << >>
           /\ dbTimer' = << >> ]_vars

\* C7: panning and pinch-zooming are never active at the same time.
C7_OneGestureState == ~(isDragging /\ initialPinchDistance # Null)

\* ================================================================ placement
\* src/lib/node-placement.ts.  A node's position and dimensions are kept in
\* the store either as an object or as a string:
\*   [kind |-> "object", v |-> r]   the object r
\*   [kind |-> "json",   v |-> r]   a string that JSON.parse turns into r
\*   [kind |-> "garbage"]           a string that JSON.parse rejects
GRID_SIZE == 50

NODE_PADDING == 40

SPIRAL_INITIAL_RADIUS == 100

SPIRAL_RADIUS_INCREMENT == 60

\* while (attempts < maxAttempts)
maxAttempts == 50

\* angle += Math.PI / 6 reaches 2 * Math.PI after twelve steps.
StepsPerTurn == 12

\* The outcome of a call that raised an error instead of returning.
Throws == [threw |-> "SyntaxError"]

\* typeof v === 'string' ? JSON.parse(v) : v
ParseIfString(v) ==
  CASE v.kind = "object"  -> v.v
    [] v.kind = "json"    -> v.v
    [] v.kind = "garbage" -> Throws

\* Math.cos and Math.sin at k * (pi / 6), to three decimals.
MathCosSteps(k) ==
  CASE k % 12 \in {0}     -> Num(1)
    [] k % 12 \in {1, 11} -> Rat(866, 1000)
    [] k % 12 \in {2, 10} -> Rat(1, 2)
    [] k % 12 \in {3, 9}  -> Num(0)
    [] k % 12 \in {4, 8}  -> Rat(-1, 2)
    [] k % 12 \in {5, 7}  -> Rat(-866, 1000)
    [] k % 12 \in {6}     -> Num(-1)

MathSinSteps(k) == MathCosSteps(k + 9)

\* Math.ceil of a finite number, as an integer.
MathCeil(a) == -((-a.n) \div a.d)

\* The overlap test without the padding of the candidate.
checkOverlapUnpadded(posA, dimA, posB, dimB) ==
  /\ Lt(posA.x, Add(posB.x, dimB.width))
  /\ Lt(posB.x, Add(posA.x, dimA.width))
  /\ Lt(posA.y, Add(posB.y, dimB.height))
  /\ Lt(posB.y, Add(posA.y, dimA.height))

\* The overlap test with A padded on its left and top sides only.
checkOverlapPaddedLeftTop(posA, dimA, posB, dimB) ==
  LET paddedPosA == [x |-> Sub(posA.x, Num(NODE_PADDING)),
                     y |-> Sub(posA.y, Num(NODE_PADDING))]
      paddedDimA == [width  |-> Add(dimA.width, Num(NODE_PADDING)),
                     height |-> Add(dimA.height, Num(NODE_PADDING))]
  IN  /\ Lt(paddedPosA.x, Add(posB.x, dimB.width))
      /\ Lt(posB.x, Add(paddedPosA.x, paddedDimA.width))
      /\ Lt(paddedPosA.y, Add(posB.y, dimB.height))
      /\ Lt(posB.y, Add(paddedPosA.y, paddedDimA.height))

\* checkOverlap: pads A by NODE_PADDING on every side, B not at all.
checkOverlap(posA, dimA, posB, dimB) ==
  LET paddedPosA == [x |-> Sub(posA.x, Num(NODE_PADDING)),
                     y |-> Sub(posA.y, Num(NODE_PADDING))]
      paddedDimA == [width  |-> Add(dimA.width, Num(NODE_PADDING * 2)),
                     height |-> Add(dimA.height, Num(NODE_PADDING * 2))]
  IN  /\ Lt(paddedPosA.x, Add(posB.x, dimB.width))
      /\ Lt(posB.x, Add(paddedPosA.x, paddedDimA.width))
      /\ Lt(paddedPosA.y, Add(posB.y, dimB.height))
      /\ Lt(posB.y, Add(paddedPosA.y, paddedDimA.height))

\* A call that returned the value v.
Returned(v) == [returned |-> v]

\* hasCollision(x, y): nodes.some(...) visits the nodes in order and stops at
\* the first one that overlaps; a node is parsed only when it is visited.
\* The outcome is Returned(TRUE), Returned(FALSE) or Throws.
RECURSIVE someCollision(_, _, _, _)
someCollision(nodes, dimensions, c, i) ==
  IF i > Len(nodes) THEN Returned(FALSE)
  ELSE LET nodePos == ParseIfString(nodes[i].position)
           nodeDim == IF nodePos = Throws THEN Throws
                      ELSE ParseIfString(nodes[i].dimensions)
       IN  IF nodePos = Throws \/ nodeDim = Throws THEN Throws
           ELSE IF checkOverlap(c, dimensions, nodePos, nodeDim) THEN Returned(TRUE)
           ELSE someCollision(nodes, dimensions, c, i + 1)

hasCollision(nodes, dimensions, c) == someCollision(nodes, dimensions, c, 1)

\* const centerX / centerY: the viewport's centre minus half the new node.
placementCentre(dimensions, viewport) ==
  [x |-> Sub(Add(viewport.x, Div(viewport.width, Num(2))), Div(dimensions.width, Num(2))),
   y |-> Sub(Add(viewport.y, Div(viewport.height, Num(2))), Div(dimensions.height, Num(2)))]

\* The candidate of spiral attempt k (from 0): angle and radius after k steps.
spiralPoint(dimensions, viewport, k) ==
  LET centre == placementCentre(dimensions, viewport)
      radius == Num(SPIRAL_INITIAL_RADIUS + SPIRAL_RADIUS_INCREMENT * (k \div StepsPerTurn))
  IN  [x |-> Add(centre.x, Mul(radius, MathCosSteps(k % StepsPerTurn))),
       y |-> Add(centre.y, Mul(radius, MathSinSteps(k % StepsPerTurn)))]

\* The viewport test without the padding: the candidate's rectangle lies in
\* the viewport itself.
isInViewportUnpadded(c, dimensions, viewport) ==
  /\ Le(viewport.x, c.x)
  /\ Le(Add(c.x, dimensions.width), Add(viewport.x, viewport.width))
  /\ Le(viewport.y, c.y)
  /\ Le(Add(c.y, dimensions.height), Add(viewport.y, viewport.height))

\* isInViewport: the candidate's rectangle lies in the viewport shrunk by
\* NODE_PADDING on every side.
isInViewport(c, dimensions, viewport) ==
  /\ Le(Add(viewport.x, Num(NODE_PADDING)), c.x)
  /\ Le(Add(c.x, dimensions.width),
        Sub(Add(viewport.x, viewport.width), Num(NODE_PADDING)))
  /\ Le(Add(viewport.y, Num(NODE_PADDING)), c.y)
  /\ Le(Add(c.y, dimensions.height),
        Sub(Add(viewport.y, viewport.height), Num(NODE_PADDING)))

\* The grid loop's bounds and the origin of cell number g in row-major order.
gridRows(viewport) == MathCeil(Div(viewport.height, Num(GRID_SIZE)))

gridCols(viewport) == MathCeil(Div(viewport.width, Num(GRID_SIZE)))

gridCell(viewport, g) ==
  LET row == g \div gridCols(viewport)
      col == g % gridCols(viewport)
  IN  [x |-> Add(viewport.x, Num(col * GRID_SIZE)),
       y |-> Add(viewport.y, Num(row * GRID_SIZE))]

\* The ultimate fallback.
placementFallback(viewport) ==
  [x |-> Add(viewport.x, Num(NODE_PADDING)), y |-> Add(viewport.y, Num(NODE_PADDING))]

Min(S) == CHOOSE m \in S : \A n \in S : m <= n

\* The grid loop (lines 218-227) and the fallback.
gridSearch(nodes, dimensions, viewport) ==
  LET cells == 0 .. (gridRows(viewport) * gridCols(viewport) - 1)
      \* the cells at which the loop stops: no collision, or an error
      stops == { g \in cells :
                   hasCollision(nodes, dimensions, gridCell(viewport, g)) # Returned(TRUE) }
  IN  IF stops = {} THEN Returned(placementFallback(viewport))
      ELSE IF hasCollision(nodes, dimensions, gridCell(viewport, Min(stops))) = Throws
           THEN Throws
      ELSE Returned(gridCell(viewport, Min(stops)))

\* The spiral loop (lines 184-215), then the grid.
spiralSearch(nodes, dimensions, viewport) ==
  LET point(k) == spiralPoint(dimensions, viewport, k)
      \* the attempts at which the loop stops: accepted, or an error
      stops == { k \in 0 .. (maxAttempts - 1) :
                   /\ isInViewport(point(k), dimensions, viewport)
                   /\ hasCollision(nodes, dimensions, point(k)) # Returned(TRUE) }
  IN  IF stops = {} THEN gridSearch(nodes, dimensions, viewport)
      ELSE IF hasCollision(nodes, dimensions, point(Min(stops))) = Throws THEN Throws
      ELSE Returned(point(Min(stops)))

\* findAvailablePosition without the test for an empty node list: an empty
\* canvas is searched like any other.
findAvailablePositionSearchingEmpty(nodes, dimensions, viewport) ==
  IF viewport = Null
  THEN Returned([x |-> Div(Neg(dimensions.width), Num(2)),
                 y |-> Div(Neg(dimensions.height), Num(2))])
  ELSE LET centre == placementCentre(dimensions, viewport)
           atCentre == hasCollision(nodes, dimensions, centre)
       IN  IF atCentre = Throws THEN Throws
           ELSE IF ~atCentre.returned THEN Returned(centre)
           ELSE spiralSearch(nodes, dimensions, viewport)

\* findAvailablePosition without the test for a null viewport: null is
\* searched as a viewport of size zero at the origin.
findAvailablePositionSearchingNull(nodes, dimensions, viewport) ==
  LET vp == IF viewport = Null
            THEN [x |-> Num(0), y |-> Num(0), width |-> Num(0), height |-> Num(0)]
            ELSE viewport
      centre == placementCentre(dimensions, vp)
      atCentre == hasCollision(nodes, dimensions, centre)
  IN  IF Len(nodes) = 0
      THEN Returned([x |-> Div(Neg(dimensions.width), Num(2)),
                     y |-> Div(Neg(dimensions.height), Num(2))])
      ELSE IF atCentre = Throws THEN Throws
      ELSE IF ~atCentre.returned THEN Returned(centre)
      ELSE spiralSearch(nodes, dimensions, vp)

\* viewport is Null or a rectangle.
findAvailablePosition(nodes, dimensions, viewport) ==
  IF Len(nodes) = 0 \/ viewport = Null
  THEN Returned([x |-> Div(Neg(dimensions.width), Num(2)),
                 y |-> Div(Neg(dimensions.height), Num(2))])
  ELSE LET centre == placementCentre(dimensions, viewport)
           atCentre == hasCollision(nodes, dimensions, centre)
       IN  IF atCentre = Throws THEN Throws
           ELSE IF ~atCentre.returned THEN Returned(centre)
           ELSE spiralSearch(nodes, dimensions, viewport)

\* ------------------------------------------------- the calls of placement
MaxNodes == 2

Obj(r) == [kind |-> "object", v |-> r]

Json(r) == [kind |-> "json", v |-> r]

Garbage == [kind |-> "garbage"]

Rect(x, y, w, h) == [x |-> Num(x), y |-> Num(y), width |-> Num(w), height |-> Num(h)]

Dim(w, h) == [width |-> Num(w), height |-> Num(h)]

\* The nodes a canvas may hold.
PlacedNodes ==
  { [position |-> Obj(IntPt(350, 280)),  dimensions |-> Obj(Dim(50, 50))],
    [position |-> Json(IntPt(0, 0)),     dimensions |-> Json(Dim(120, 120))],
    [position |-> Obj(IntPt(90, 90)),    dimensions |-> Json(Dim(20, 20))],
    [position |-> Obj(IntPt(510, 250)),  dimensions |-> Obj(Dim(50, 50))],
    [position |-> Garbage,               dimensions |-> Obj(Dim(200, 100))] }

NewDimensions == { Dim(200, 100), Dim(10, 10) }

Viewports == { Null, Rect(0, 0, 800, 600), Rect(0, 0, 200, 200), Rect(100, 100, 0, 0) }

NodeLists(S, k) == UNION { [1..m -> S] : m \in 0..k }

Pending == [pending |-> TRUE]

InitPlace ==
  /\ CanvasInit
  /\ LoadedBlank
  /\ \E nodes \in NodeLists(PlacedNodes, MaxNodes), dimensions \in NewDimensions,
        viewport \in Viewports :
       call = [fn |-> "findAvailablePosition", nodes |-> nodes,
               dimensions |-> dimensions, viewport |-> viewport, result |-> Pending]

\* handleAddNode (the toolbar) asks for the place of a new node.
FindAvailablePosition ==
  /\ call.fn = "findAvailablePosition"
  /\ call.result = Pending
  /\ call' = [call EXCEPT
                !.result = findAvailablePosition(call.nodes, call.dimensions, call.viewport)]
  /\ UNCHANGED canvasVars

NextPlace == FindAvailablePosition

SpecPlace == InitPlace /\ [][NextPlace]_vars

\* ------------------------------------------------------ placement: claims
PlaceDone == call.fn = "findAvailablePosition" /\ call.result # Pending

\* A rectangle by its edges, and the rectangle grown by pad on every side.
Edges(pos, dim) ==
  [left |-> pos.x, right |-> Add(pos.x, dim.width),
   top |-> pos.y, bottom |-> Add(pos.y, dim.height)]

Expanded(e, pad) ==
  [left |-> Sub(e.left, pad), right |-> Add(e.right, pad),
   top |-> Sub(e.top, pad), bottom |-> Add(e.bottom, pad)]

\* Two rectangles intersect: they share a region of positive width and height.
Intersects(a, b) ==
  /\ Lt(MathMax(a.left, b.left), MathMin(a.right, b.right))
  /\ Lt(MathMax(a.top, b.top), MathMin(a.bottom, b.bottom))

HasRectangle(node) == node.position # Garbage /\ node.dimensions # Garbage

NodeEdges(node) == Edges(node.position.v, node.dimensions.v)

\* The returned rectangle, grown by NODE_PADDING, meets no node's rectangle.
PlacedClear ==
  /\ call.result # Throws
  /\ \A i \in 1..Len(call.nodes) :
       HasRectangle(call.nodes[i]) =>
         ~Intersects(Expanded(Edges(call.result.returned, call.dimensions),
                              Num(NODE_PADDING)),
                     NodeEdges(call.nodes[i]))

IsFree(c) == hasCollision(call.nodes, call.dimensions, c) = Returned(FALSE)

CentreFree == IsFree(placementCentre(call.dimensions, call.viewport))

GridCells == 0 .. (gridRows(call.viewport) * gridCols(call.viewport) - 1)

SomeGridCellFree == \E g \in GridCells : IsFree(gridCell(call.viewport, g))

SpiralAttempts == 0 .. (maxAttempts - 1)

\* Some candidate the search looks at is free of collisions.
SomeCandidateFree ==
  \/ CentreFree
  \/ \E k \in SpiralAttempts : IsFree(spiralPoint(call.dimensions, call.viewport, k))
  \/ SomeGridCellFree

\* Some candidate passes the test of its own step: the spiral takes a point
\* only if its rectangle also lies in the viewport shrunk by NODE_PADDING.
SomeCandidateAccepted ==
  \/ CentreFree
  \/ \E k \in SpiralAttempts :
       /\ isInViewport(spiralPoint(call.dimensions, call.viewport, k),
                       call.dimensions, call.viewport)
       /\ IsFree(spiralPoint(call.dimensions, call.viewport, k))
  \/ SomeGridCellFree

PlaceSearched == PlaceDone /\ Len(call.nodes) >= 1 /\ call.viewport # Null

\* C8 (as stated): with at least one node and a viewport, if the centre, a
\* spiral point or a grid cell origin is free of collisions, the returned
\* rectangle grown by NODE_PADDING intersects no existing node.
C8_Original == (PlaceSearched /\ SomeCandidateFree) => PlacedClear

\* C8 (amended): with at least one node and a viewport, if the centre is free,
\* or a spiral point lies in the shrunk viewport and is free, or a grid cell
\* origin is free, the returned rectangle grown by NODE_PADDING intersects no
\* existing node.
C8_PlacementNonOverlap == (PlaceSearched /\ SomeCandidateAccepted) => PlacedClear

\* The search went past a colliding centre and returned a free place.
C8_Witness ==
  /\ PlaceSearched
  /\ SomeCandidateAccepted
  /\ ~CentreFree
  /\ PlacedClear

\* C9: findAvailablePosition returns a position for every input; it never
\* raises an error.
C9_NeverThrows == PlaceDone => call.result # Throws

\* ================================================================== culling
\* components/Canvas/NodeList.tsx, the filter of visibleNodes.
\* The filter's test with no padding around the viewport.
inBoundsUnpadded(nodePos, nodeDim, viewportBounds) ==
  /\ Lt(nodePos.x, Add(viewportBounds.x, viewportBounds.width))
  /\ Lt(viewportBounds.x, Add(nodePos.x, nodeDim.width))
  /\ Lt(nodePos.y, Add(viewportBounds.y, viewportBounds.height))
  /\ Lt(viewportBounds.y, Add(nodePos.y, nodeDim.height))

\* The filter's test (lines 116-125).
inExpandedBounds(nodePos, nodeDim, viewportBounds) ==
  LET paddingX == Mul(viewportBounds.width, Rat(1, 2))
      paddingY == Mul(viewportBounds.height, Rat(1, 2))
  IN  /\ Lt(nodePos.x, Add(Add(viewportBounds.x, viewportBounds.width), paddingX))
      /\ Lt(Sub(viewportBounds.x, paddingX), Add(nodePos.x, nodeDim.width))
      /\ Lt(nodePos.y, Add(Add(viewportBounds.y, viewportBounds.height), paddingY))
      /\ Lt(Sub(viewportBounds.y, paddingY), Add(nodePos.y, nodeDim.height))

\* nodes.filter(...): every node is visited in order and parsed; the nodes
\* that pass are kept in their order.  Returned(<<...>>) or Throws.
RECURSIVE filterVisible(_, _, _)
filterVisible(nodes, viewportBounds, i) ==
  IF i > Len(nodes) THEN Returned(<< >>)
  ELSE LET nodePos == ParseIfString(nodes[i].position)
           nodeDim == IF nodePos = Throws THEN Throws
                      ELSE ParseIfString(nodes[i].dimensions)
           rest == filterVisible(nodes, viewportBounds, i + 1)
       IN  IF nodePos = Throws \/ nodeDim = Throws \/ rest = Throws THEN Throws
           ELSE IF inExpandedBounds(nodePos, nodeDim, viewportBounds)
                THEN Returned(<< nodes[i] >> \o rest.returned)
           ELSE rest

visibleNodes(nodes, viewportBounds) == filterVisible(nodes, viewportBounds, 1)

\* ---------------------------------------------------- the calls of culling
\* Around the viewport (0, 0, 800, 600) the padded bounds run from -400 to
\* 1200 and from -300 to 900.
CulledNodes ==
  { [position |-> Obj(IntPt(100, 100)),   dimensions |-> Obj(Dim(200, 100))],
    [position |-> Obj(IntPt(1199, 0)),    dimensions |-> Obj(Dim(50, 50))],
    [position |-> Json(IntPt(1200, 0)),   dimensions |-> Json(Dim(50, 50))],
    [position |-> Obj(IntPt(-450, 0)),    dimensions |-> Json(Dim(50, 50))],
    [position |-> Json(IntPt(-449, 0)),   dimensions |-> Obj(Dim(50, 50))],
    [position |-> Obj(IntPt(0, 899)),     dimensions |-> Obj(Dim(50, 50))],
    [position |-> Obj(IntPt(0, -350)),    dimensions |-> Obj(Dim(50, 50))],
    [position |-> Obj(IntPt(-10, -10)),   dimensions |-> Obj(Dim(50, 50))],
    [position |-> Obj(IntPt(0, 0)),       dimensions |-> Garbage] }

\* The bounds before the first layout effect (zero size), of the initial
\* transform, and of a panned and zoomed one.
ViewportBounds == { Rect(0, 0, 0, 0), Rect(0, 0, 800, 600), Rect(-125, 40, 401, 301) }

InitCull ==
  /\ CanvasInit
  /\ LoadedBlank
  /\ \E nodes \in NodeLists(CulledNodes, MaxNodes), viewportBounds \in ViewportBounds :
       call = [fn |-> "visibleNodes", nodes |-> nodes,
               viewportBounds |-> viewportBounds, result |-> Pending]

\* NodeList renders: the filter runs.
VisibleNodes ==
  /\ call.fn = "visibleNodes"
  /\ call.result = Pending
  /\ call' = [call EXCEPT !.result = visibleNodes(call.nodes, call.viewportBounds)]
  /\ UNCHANGED canvasVars

NextCull == VisibleNodes

SpecCull == InitCull /\ [][NextCull]_vars

\* -------------------------------------------------------- culling: claims
CullDone == call.fn = "visibleNodes" /\ call.result # Pending

\* The viewport bounds grown by half their width to the left and right and
\* by half their height above and below.
PaddedBounds(vb) ==
  LET e == Edges([x |-> vb.x, y |-> vb.y], [width |-> vb.width, height |-> vb.height])
      halfW == Div(vb.width, Num(2))
      halfH == Div(vb.height, Num(2))
  IN  [left |-> Sub(e.left, halfW), right |-> Add(e.right, halfW),
       top |-> Sub(e.top, halfH), bottom |-> Add(e.bottom, halfH)]

\* v brought into the interval from lo to hi.
Clamp(v, lo, hi) == MathMax(lo, MathMin(v, hi))

\* Some point of the rectangle b lies strictly inside the rectangle a: the
\* point of b nearest to a's centre does.  For a rectangle b of positive
\* size this is Intersects(a, b).
MeetsInside(a, b) ==
  LET px == Clamp(Div(Add(a.left, a.right), Num(2)), b.left, b.right)
      py == Clamp(Div(Add(a.top, a.bottom), Num(2)), b.top, b.bottom)
  IN  Lt(a.left, px) /\ Lt(px, a.right) /\ Lt(a.top, py) /\ Lt(py, a.bottom)

PositiveSize(vb) == Lt(Num(0), vb.width) /\ Lt(Num(0), vb.height)

\* The nodes a correct culler shows, in the order of the node list.
ExpectedVisible ==
  SelectSeq(call.nodes,
            LAMBDA node : MeetsInside(NodeEdges(node), PaddedBounds(call.viewportBounds)))

\* C10: the visible set is exactly the nodes whose rectangle intersects the
\* viewport bounds grown by 0.5 x width and 0.5 x height, in the order of the
\* node list; a node outside the padded bounds is left out and one reaching
\* one unit into them is kept.
C10_CullingExact ==
  (CullDone /\ call.result # Throws) =>
    /\ call.result.returned = ExpectedVisible
    /\ PositiveSize(call.viewportBounds) =>
         call.result.returned =
           SelectSeq(call.nodes,
                     LAMBDA node : Intersects(NodeEdges(node),
                                              PaddedBounds(call.viewportBounds)))

\* A node one unit inside the padded bounds is kept and a node touching them
\* from outside is dropped.
C10_Witness ==
  /\ CullDone
  /\ call.result # Throws
  /\ PositiveSize(call.viewportBounds)
  /\ Len(call.nodes) = 2
  /\ Len(call.result.returned) = 1
  /\ \E i, j \in 1..2 :
       /\ NodeEdges(call.nodes[i]).left =
            Sub(PaddedBounds(call.viewportBounds).right, Num(1))
       /\ call.result.returned[1] = call.nodes[i]
       /\ NodeEdges(call.nodes[j]).left = PaddedBounds(call.viewportBounds).right

\* ------------------------------------------- placement: the empty canvas
EmptyCanvasCall == PlaceDone /\ Len(call.nodes) = 0 /\ call.viewport # Null

\* C11 (as stated): on an empty canvas, a new node of 200 x 100 in the
\* viewport (0, 0, 800, 600) is placed at (300, 250); in general the result
\* is the viewport's centre minus half the new node's dimensions.
C11_Original ==
  EmptyCanvasCall =>
    /\ call.result = Returned(placementCentre(call.dimensions, call.viewport))
    /\ (call.dimensions = Dim(200, 100) /\ call.viewport = Rect(0, 0, 800, 600)) =>
         call.result = Returned(IntPt(300, 250))

\* C11 (amended): on an empty canvas, a new node of 200 x 100 in the viewport
\* (0, 0, 800, 600) is placed at (-100, -50); in general, with no existing
\* node and a viewport, the new node's centre is the world origin, wherever
\* the viewport is.
C11_EmptyCanvasAtOrigin ==
  EmptyCanvasCall =>
    /\ call.result # Throws
    /\ NumEq(Add(call.result.returned.x, Div(call.dimensions.width, Num(2))), Num(0))
    /\ NumEq(Add(call.result.returned.y, Div(call.dimensions.height, Num(2))), Num(0))
    /\ (call.dimensions = Dim(200, 100) /\ call.viewport = Rect(0, 0, 800, 600)) =>
         call.result = Returned(IntPt(-100, -50))

\* The scenario of C11 has been computed.
C11_Witness ==
  /\ EmptyCanvasCall
  /\ call.dimensions = Dim(200, 100)
  /\ call.viewport = Rect(0, 0, 800, 600)

\* C12: with an empty node list or a null viewport the result is
\* {x: -width/2, y: -height/2}, whatever the other argument is.
C12_OriginWhenEmptyOrNull ==
  (PlaceDone /\ (Len(call.nodes) = 0 \/ call.viewport = Null)) =>
    /\ call.result # Throws
    /\ Mul(Num(2), call.result.returned.x) = Neg(call.dimensions.width)
    /\ Mul(Num(2), call.result.returned.y) = Neg(call.dimensions.height)

\* A null viewport with nodes on the canvas, one of them unparsable.
C12_Witness ==
  /\ PlaceDone
  /\ call.viewport = Null
  /\ Len(call.nodes) = 2
  /\ \E i \in 1..2 : ~HasRectangle(call.nodes[i])
  /\ call.result # Throws

\* ================================================================ the pinch
\* The touch points of the model lie on one horizontal line: the distance
\* between two of them is the difference of their x coordinates.
TouchDistance(ts) == Num(Abs(ts[1].x - ts[2].x))

\* v limited to the range of scales.
Clamped(v) == IF Lt(v, MIN_SCALE) THEN MIN_SCALE ELSE IF Lt(MAX_SCALE, v) THEN MAX_SCALE ELSE v

PinchActive == initialPinchDistance # Null

\* C13: d0 and s0 are the touch distance and the scale at the touch start
\* that brought the second finger down; they stay as captured until a touch
\* start or touch end; and after every 2-finger move of a pinch with d0 # 0
\* the scale is clamp(s0 * currentDistance / d0, 0.1, 5).
C13_PinchFormula ==
  [][ /\ (EventStep /\ lastOp' = "touchStart" /\ Len(touches') = 2) =>
           /\ initialPinchDistance' = TouchDistance(touches')
           /\ initialScale' = scale
      /\ (PinchActive /\ lastOp' \notin {"touchStart", "touchEnd"}) =>
           UNCHANGED << initialPinchDistance, initialScale >>
      /\ (EventStep /\ lastOp' = "pinchMove" /\ PinchActive /\ Truthy(initialPinchDistance)) =>
           scale' = Clamped(Div(Mul(initialScale, TouchDistance(touches')),
                                initialPinchDistance))
    ]_vars

\* The example of C13: a pinch from scale 1 whose fingers are now twice as
\* far apart as at its start.
C13_Witness ==
  /\ lastOp = "pinchMove"
  /\ PinchActive
  /\ initialScale = Num(1)
  /\ TouchDistance(touches) = Mul(Num(2), initialPinchDistance)
  /\ Truthy(initialPinchDistance)
  /\ scale = Num(2)

\* C14: no pinch move divides by zero: in no reachable state is the scale or
\* the translation NaN or infinite, also when a pinch started with distance
\* 0 and the current distance is 0 too.
C14_NoDivisionByZero == IsFinite(scale) /\ FinitePt(position)

\* The pan anchor that keeps the view in place for a finger at t.
AnchorFor(t, pos) == Pt(Sub(Num(t.x), pos.x), Sub(Num(t.y), pos.y))

\* C15: when a touch end leaves fewer than two fingers during a pinch, the
\* pinch is over; with one finger left the state is panning with a pan anchor
\* valid for that finger, with none left it is idle.
C15_PinchToPanOrIdle ==
  [][ (EventStep /\ lastOp' = "touchEnd" /\ PinchActive /\ Len(touches') < 2) =>
        /\ initialPinchDistance' = Null
        /\ Len(touches') = 1 =>
             (isDragging' /\ PtEq(dragStart', AnchorFor(touches'[1], position')))
        /\ Len(touches') = 0 => ~isDragging'
    ]_vars

\* C16: from panning, a pointer up, a touch end and the pointer leaving the
\* surface each end the pan in that step, so that a later pointer move with
\* no new pointer down leaves the translation alone.
C16_PanEnds ==
  [][ /\ (EventStep /\ isDragging /\ lastOp' \in {"mouseUp", "touchEnd", "mouseLeave"}) =>
           ~isDragging'
      /\ (EventStep /\ lastOp' = "mouseMove" /\ leaveListeners # << >>) =>
           position' = position
    ]_vars

TransformChanges == scale' # scale \/ position' # position

\* C17: every input event that changes the Transform, a move during a pan or
\* a pinch included, restarts both debounce timers with the new Transform.
C17_EveryChangeRestartsTimers ==
  [][ (EventStep /\ TransformChanges) =>
        /\ uiTimer' = << ViewConfig(scale', position') >>
        /\ dbTimer' = << ViewConfig(scale', position') >>
    ]_vars

\* =============================================================== navigation
ViewportCentre == Pt(Rat(ContainerRect.width, 2), Rat(ContainerRect.height, 2))

\* C18: when the animation started by a navigation command completes (alone
\* in flight, the scale as it was when the command ran), the world point it
\* was asked to show maps to the centre of the viewport.
C18_NavigationCentres ==
  [][ (lastOp' = "animationFrames" /\ Len(anims) = 1 /\ anims' = << >>
       /\ scale' = anims[1].finalScale) =>
        PtEq(WorldToScreen(anims[1].goal, scale', position'), ViewportCentre)
    ]_vars

\* ======================================================= malformed node data
\* The position and dimensions the claim substitutes for a malformed value.
OrDefault(v, default) == IF ParseIfString(v) = Throws THEN default ELSE ParseIfString(v)

Malformed(node) ==
  ParseIfString(node.position) = Throws \/ ParseIfString(node.dimensions) = Throws

\* C19: for a node list holding a node whose persisted position or dimensions
\* are malformed, culling raises no error: it treats that node as having
\* position {0,0} and dimensions {50,50} and goes on to the other nodes.
C19_MalformedUsesDefaults ==
  (CullDone /\ \E i \in 1..Len(call.nodes) : Malformed(call.nodes[i])) =>
    /\ call.result # Throws
    /\ call.result.returned =
         SelectSeq(call.nodes,
                   LAMBDA node : inExpandedBounds(OrDefault(node.position, IntPt(0, 0)),
                                                  OrDefault(node.dimensions, Dim(50, 50)),
                                                  call.viewportBounds))

\* ================================================== persistence: the claims
\* The store answers a write: one entry of writes leaves "pending".
StoreAnswers == Len(writes') = Len(writes) /\ writes' # writes

StoreError ==
  /\ StoreAnswers
  /\ \E i \in 1..Len(writes) : writes[i] = "pending" /\ writes'[i] = "failed"

ViewUpdateFailed ==
  [title |-> "View Update Failed", description |-> "Could not save canvas view state",
   variant |-> "destructive"]

\* C20: when a write of the view configuration fails, at any time after it
\* was issued, the failure is reported through the error handler and the
\* local transform and gesture state stay as they are; no answer of the
\* store, good or bad, changes the transform, the gesture state, the timers
\* or the animations, and a write left unanswered blocks no later change.
C20_StoreFailureReportedNoRollback ==
  [][ /\ StoreError => toasts' = Append(toasts, ViewUpdateFailed)
      /\ StoreAnswers => UNCHANGED << scale, position, gestureVars, timerVars, anims >>
      /\ (scale' # scale \/ position' # position) => UNCHANGED writes
    ]_vars

\* A write failed after the transform had moved on from the persisted
\* configuration, and the failure was reported.
C20_Witness ==
  /\ Len(writes) >= 1
  /\ writes[1] = "failed"
  /\ persistCalls[1] # ViewConfig(scale, position)
  /\ toasts = << ViewUpdateFailed >>

\* ================================================================== seeding
\* hooks/useCanvas.ts, lines 146-174: the view config the hook hands out for
\* the fetched row.  No view_config: undefined (Null here); an object of the
\* expected shape: its zoom and position; any other object: the defaults.
ParseViewConfig(view_config) ==
  IF view_config = Null THEN Null
  ELSE IF DOMAIN view_config = {"zoom", "position"}
       THEN ViewConfig(view_config.zoom, view_config.position)
  ELSE ViewConfig(Num(1), Origin)

\* InfiniteCanvas, lines 70-76: if (canvas && viewConfig && !isInitialized)
\* the scale and position are set from the view config.
InitializationEffect(viewConfig) ==
  IF viewConfig # Null /\ ~isInitialized
  THEN /\ scale' = OrElse(viewConfig.zoom, Num(1))
       /\ position' = viewConfig.position
       /\ isInitialized' = TRUE
  ELSE UNCHANGED << scale, position, isInitialized >>

\* The canvas query answers (first load, or a refetch on focus or reconnect)
\* with the row as the store holds it; the component renders and its
\* initialization effect runs.
CanvasQueryResolves ==
  /\ canvas' = [view_config |-> stored]
  /\ InitializationEffect(ParseViewConfig(stored))
  /\ lastOp' = "canvasQuery"
  /\ UNCHANGED << gestureVars, timerVars, anims, leaveListeners, persistCalls, storeVars,
                  touches, nEvents, nextAnimId, lastStarted, lastAnchor, gestureSince, stored,
                  nodeVars, call >>

\* What the canvas row may hold when the page opens: nothing, a zoom above
\* MAX_SCALE, a zoom of 0, an ordinary config, an object of another shape.
StoredConfigs ==
  { Null,
    ViewConfig(Num(10), IntPt(0, 0)),
    ViewConfig(Num(0), IntPt(30, 40)),
    ViewConfig(Rat(1, 2), IntPt(50, 20)),
    [theme |-> "dark"] }

\* The page opens: the canvas query has not answered yet.
InitSeed == CanvasInit /\ stored \in StoredConfigs /\ canvas = Null /\ call = NoCall

\* The page from its opening on: the canvas query, the zoom buttons, the
\* timers and the store.
NextSeed ==
  \/ CanvasQueryResolves
  \/ handleZoomIn
  \/ handleZoomOut
  \/ UiTimerFires
  \/ DbTimerFires
  \/ StoreSucceeds
  \/ StoreFails

SpecSeed == InitSeed /\ [][NextSeed]_vars

\* --------------------------------------------------------- seeding: claims
\* An input event has happened and the transform is no longer the one the
\* component was constructed with.
UserChangedTransform == nEvents > 0 /\ (scale # Num(1) \/ position # Origin)

\* C21: the persisted view config seeds the transform at most once, when the
\* engine initialises: once the user has changed the transform, an answer of
\* the canvas query (a late first answer or a refetch, also for a canvas that
\* had no stored config at first) leaves the scale and the position alone.
C21_NoSeedAfterUserChange ==
  [][ (lastOp' = "canvasQuery" /\ UserChangedTransform) =>
        (scale' = scale /\ position' = position) ]_vars

\* C22: in every reachable state 0.1 <= scale <= 5, also right after the
\* transform was seeded from a persisted view config, whatever zoom it holds.
C22_ScaleAlwaysInRange == ScaleInRange(scale)

\* ========================================================= animation: claims
InFlight(id) == \E i \in 1..Len(anims) : anims[i].id = id

\* The newest animation, started after every gesture so far.
Newest == anims[Len(anims)]

NotSuperseded == anims # << >> /\ Newest.id \notin gestureSince

\* This frame is the last of the newest animation.
NewestCompletes ==
  /\ NotSuperseded
  /\ lastOp' = "animationFrames"
  /\ anims' # anims
  /\ Completes([Newest EXCEPT !.elapsed = @ + 1])

\* C23: when an animation that was not superseded reaches progress 1 (frames
\* being delivered), the transform is exactly its target, the completion
\* step has run (both timers hold the target config) and the animation has
\* no further frame; an animation that is gone never comes back.
C23_CompletionExact ==
  [][ /\ NewestCompletes =>
           /\ position' = Newest.targetPosition
           /\ scale' = Newest.finalScale
           /\ uiTimer' = << ViewConfig(Newest.finalScale, Newest.targetPosition) >>
           /\ dbTimer' = << ViewConfig(Newest.finalScale, Newest.targetPosition) >>
           /\ ~InFlight(Newest.id)'
      /\ \A id \in 1..MaxEvents : (id <= nextAnimId /\ ~InFlight(id)) => ~InFlight(id)'
    ]_vars

\* ============================================== touches beyond the second
MaxPinchTouches == 3

\* The touch handlers alone, with up to MaxPinchTouches fingers down.
NextTouch ==
  \/ \E added \in TouchLists(2), onCanvas \in BOOLEAN :
       TouchStart(added, onCanvas, MaxPinchTouches)
  \/ \E ts \in TouchLists(MaxPinchTouches) : handleTouchMove(ts)
  \/ \E lifted \in SUBSET (1..MaxPinchTouches) : handleTouchEnd(lifted)
  \/ UiTimerFires
  \/ DbTimerFires
  \/ StoreSucceeds
  \/ StoreFails

SpecTouch == Init /\ [][NextTouch]_vars

\* The translation that keeps the world point under c fixed when the scale
\* goes to newScale.
KeepsFixed(c, newScale) ==
  LET w == ScreenToWorld(c, scale, position)
  IN  Pt(Sub(c.x, Mul(w.x, newScale)), Sub(c.y, Mul(w.y, newScale)))

FirstTwoCentre(ts) == Pt(Rat(ts[1].x + ts[2].x, 2), Rat(ts[1].y + ts[2].y, 2))

FirstTwoScale(ts) ==
  Clamped(Div(Mul(initialScale, TouchDistance(ts)), initialPinchDistance))

\* C24: a touch move with more than two touch points during a pinch acts as
\* the move of its first two points: the scale and the anchor come from
\* touches[0] and touches[1], and the gesture state stays as it is.
C24_ExtraTouchesIgnored ==
  [][ (EventStep /\ lastOp' \in {"touchMove", "pinchMove"} /\ Len(touches') > 2
       /\ PinchActive /\ Truthy(initialPinchDistance)) =>
        /\ scale' = FirstTwoScale(touches')
        /\ PtEq(position', KeepsFixed(FirstTwoCentre(touches'), FirstTwoScale(touches')))
        /\ UNCHANGED gestureVars
    ]_vars

\* ========================================================= the overlap test
\* Rectangles around {0, 0, 100, 100}: gaps of 10, 19, 20 and 21 to its
\* right and below, one inside it, one diagonal at a gap of 20, one of size
\* zero at its corner, one far away.
OverlapRects ==
  { Rect(0, 0, 100, 100),
    Rect(110, 0, 50, 50),
    Rect(119, 30, 50, 200),
    Rect(120, 0, 50, 50),
    Rect(121, 0, 5, 5),
    Rect(40, 40, 10, 10),
    Rect(0, 119, 100, 30),
    Rect(0, 120, 300, 30),
    Rect(-70, -70, 50, 50),
    Rect(100, 100, 0, 0),
    Rect(500, 500, 50, 50) }

RectPos(r) == [x |-> r.x, y |-> r.y]

RectDim(r) == [width |-> r.width, height |-> r.height]

InitOverlap ==
  /\ CanvasInit
  /\ LoadedBlank
  /\ \E a \in OverlapRects, b \in OverlapRects :
       call = [fn |-> "checkOverlap", a |-> a, b |-> b, result |-> Pending]

\* hasCollision tests the candidate a against the node b; the second result
\* is the test with b as the candidate and a as the node.
CheckOverlap ==
  /\ call.fn = "checkOverlap"
  /\ call.result = Pending
  /\ call' = [call EXCEPT !.result =
       [ab |-> checkOverlap(RectPos(call.a), RectDim(call.a), RectPos(call.b), RectDim(call.b)),
        ba |-> checkOverlap(RectPos(call.b), RectDim(call.b), RectPos(call.a), RectDim(call.a))]]
  /\ UNCHANGED canvasVars

NextOverlap == CheckOverlap

SpecOverlap == InitOverlap /\ [][NextOverlap]_vars

OverlapDone == call.fn = "checkOverlap" /\ call.result # Pending

\* The rectangles come nearer than NODE_PADDING to each other on both axes.
WithinPadding(a, b) ==
  /\ Lt(Sub(a.x, Add(b.x, b.width)), Num(NODE_PADDING))
  /\ Lt(Sub(b.x, Add(a.x, a.width)), Num(NODE_PADDING))
  /\ Lt(Sub(a.y, Add(b.y, b.height)), Num(NODE_PADDING))
  /\ Lt(Sub(b.y, Add(a.y, a.height)), Num(NODE_PADDING))

\* C25 as stated: there are rectangles A and B for which the overlap test of
\* candidate A against node B differs from the test of candidate B against
\* node A.
C25_Original ==
  OverlapDone =>
    \E a \in OverlapRects, b \in OverlapRects :
      checkOverlap(RectPos(a), RectDim(a), RectPos(b), RectDim(b))
        # checkOverlap(RectPos(b), RectDim(b), RectPos(a), RectDim(a))

\* C25: the overlap test gives the same answer with the roles of candidate
\* and node swapped; it holds exactly when the two rectangles come nearer
\* than NODE_PADDING to each other on both axes.
C25_OverlapSymmetric ==
  OverlapDone =>
    /\ call.result.ab = call.result.ba
    /\ call.result.ab = WithinPadding(call.a, call.b)

\* Two different rectangles that do not intersect but lie within the padding.
C25_Witness ==
  /\ OverlapDone
  /\ call.a = Rect(0, 0, 100, 100)
  /\ call.b = Rect(119, 30, 50, 200)
  /\ call.result.ab
  /\ ~checkOverlapUnpadded(RectPos(call.a), RectDim(call.a), RectPos(call.b), RectDim(call.b))

\* ===================================================== rounded arithmetic
\* JavaScript numbers are binary floating point: every operation rounds its
\* exact result to the nearest number with a fixed count of significant bits
\* (53 in JavaScript), ties to even.  The same arithmetic with MantissaBits
\* significant bits:
MantissaBits == 8

Pow2(e) == IF e >= 0 THEN Num(2 ^ e) ELSE Rat(1, 2 ^ (-e))

\* x > 0 as y * 2^e with 2^(MantissaBits-1) <= y < 2^MantissaBits.
RECURSIVE Normalised(_, _)
Normalised(y, e) ==
  IF y.n >= (2 ^ MantissaBits) * y.d THEN Normalised(Rat(y.n, 2 * y.d), e + 1)
  ELSE IF y.n < (2 ^ (MantissaBits - 1)) * y.d THEN Normalised(Rat(2 * y.n, y.d), e - 1)
  ELSE [y |-> y, e |-> e]

\* The integer nearest to q >= 0, ties to even.
RoundHalfEven(q) ==
  LET f == q.n \div q.d
      r == 2 * (q.n % q.d)
  IN  IF r < q.d THEN f
      ELSE IF r > q.d THEN f + 1
      ELSE IF f % 2 = 0 THEN f ELSE f + 1

\* x rounded to MantissaBits significant bits.
Round(x) ==
  IF x.d = 0 \/ x.n = 0 THEN x
  ELSE LET a == Normalised(Rat(Abs(x.n), x.d), 0)
           k == RoundHalfEven(a.y)
       IN  Mul(Num(Sign(x.n) * k), Pow2(a.e))

\* +, -, *, / of JavaScript numbers
FAdd(a, b) == Round(Add(a, b))

FSub(a, b) == Round(Sub(a, b))

FMul(a, b) == Round(Mul(a, b))

FDiv(a, b) == Round(Div(a, b))

\* handleWheel: world = (cursor - position) / scale
screenToWorld(p, s, t) == Pt(FDiv(FSub(p.x, t.x), s), FDiv(FSub(p.y, t.y), s))

\* World to screen without the translation.
worldToScreenScaled(w, s, t) == Pt(FMul(w.x, s), FMul(w.y, s))

\* The inverse map: screen = world * scale + position
worldToScreen(w, s, t) == Pt(FAdd(FMul(w.x, s), t.x), FAdd(FMul(w.y, s), t.y))

\* Scales within [0.1, 5], translations and screen points, all of them
\* numbers of the arithmetic.
RoundTripScales == { Round(Rat(1, 10)), Round(Rat(3, 10)), Rat(1, 2), Num(1),
                     Round(Rat(11, 10)), Num(5) }

RoundTripTranslations == { IntPt(0, 0), IntPt(-40, -30), Pt(Rat(75, 2), Num(7)) }

RoundTripPoints == { IntPt(0, 0), IntPt(1, 3), IntPt(100, 100), IntPt(200, 150),
                     Pt(Rat(245, 2), Num(96)) }

InitRoundTrip ==
  /\ CanvasInit
  /\ LoadedBlank
  /\ \E p \in RoundTripPoints, s \in RoundTripScales, t \in RoundTripTranslations :
       call = [fn |-> "roundTrip", p |-> p, scale |-> s, translation |-> t,
               result |-> Pending]

\* A screen point is mapped to the world and back.
RoundTrip ==
  /\ call.fn = "roundTrip"
  /\ call.result = Pending
  /\ call' = [call EXCEPT !.result =
       worldToScreen(screenToWorld(call.p, call.scale, call.translation),
                     call.scale, call.translation)]
  /\ UNCHANGED canvasVars

NextRoundTrip == RoundTrip

SpecRoundTrip == InitRoundTrip /\ [][NextRoundTrip]_vars

RoundTripDone == call.fn = "roundTrip" /\ call.result # Pending

AbsNum(a) == IF a.n < 0 THEN Neg(a) ELSE a

\* |q - p| <= 4 * 2^-MantissaBits * (|p| + |t|)
Near(q, p, t) ==
  Le(AbsNum(Sub(q, p)),
     Mul(Pow2(2 - MantissaBits), Add(AbsNum(p), AbsNum(t))))

TimeUnit == 250

\* setTimeout(..., 500)
SaveDebounce == 500 \div TimeUnit

\* now - lastSaveTimeRef.current > 1000
SaveSpacing == 1000 \div TimeUnit

MaxEdits == 3

MaxClock == 16

Contents == { "", "a", "ab" }

\* The timeout's callback (lines 115-139): the store is written only if the
\* content differs from the lastSavedContent captured by updateContent and
\* more than 1000 ms have passed since the last save; the write succeeds.
saveContent(t) ==
  IF t.newContent # t.lastSavedContent /\ now - lastSaveTime > SaveSpacing
  THEN /\ storedContent' = t.newContent
       /\ lastSavedContent' = t.newContent
       /\ lastSaveTime' = now
  ELSE UNCHANGED << storedContent, lastSavedContent, lastSaveTime >>

\* updateContent(newContent), called by the textarea's onChange: the pending
\* timeout is cleared and a new one set.
updateContent(newContent) ==
  /\ nEdits < MaxEdits
  /\ newContent # content
  /\ nEdits' = nEdits + 1
  /\ content' = newContent
  /\ contentUpdateTimeout' = << [newContent |-> newContent,
                                 lastSavedContent |-> lastSavedContent,
                                 due |-> now + SaveDebounce] >>
  /\ UNCHANGED << lastSavedContent, lastSaveTime, storedContent, now >>
  /\ UNCHANGED << scale, position, gestureVars, timerVars, anims, leaveListeners,
                  persistCalls, storeVars, touches, nEvents, nextAnimId, lastStarted, lastOp,
                  lastAnchor, gestureSince, seedVars, call >>

\* The 500 ms timeout fires.
ContentTimeoutFires ==
  /\ contentUpdateTimeout # << >>
  /\ \A i \in 1..Len(contentUpdateTimeout) : contentUpdateTimeout[i].due = now
  /\ saveContent(contentUpdateTimeout[1])
  /\ contentUpdateTimeout' = << >>
  /\ UNCHANGED << content, now, nEdits >>
  /\ UNCHANGED << scale, position, gestureVars, timerVars, anims, leaveListeners,
                  persistCalls, storeVars, touches, nEvents, nextAnimId, lastStarted, lastOp,
                  lastAnchor, gestureSince, seedVars, call >>

\* Time passes, but not beyond the moment a pending timeout is due.
Tick ==
  /\ now < MaxClock
  /\ \A i \in 1..Len(contentUpdateTimeout) : now < contentUpdateTimeout[i].due
  /\ now' = now + 1
  /\ UNCHANGED << content, lastSavedContent, lastSaveTime, contentUpdateTimeout,
                  storedContent, nEdits >>
  /\ UNCHANGED << scale, position, gestureVars, timerVars, anims, leaveListeners,
                  persistCalls, storeVars, touches, nEvents, nextAnimId, lastStarted, lastOp,
                  lastAnchor, gestureSince, seedVars, call >>

NextSave ==
  \/ \E c \in Contents : updateContent(c)
  \/ ContentTimeoutFires
  \/ Tick

SpecSave == Init /\ [][NextSave]_vars

\* C27: text auto-save loses no edit: once the edits have stopped and no
\* save is pending any more, the content stored for the node is the last
\* edited content.
C27_NoEditLost == contentUpdateTimeout = << >> => storedContent = content

\* ------------------------------------------------- creating nodes (controls)
\* The controls component places new nodes with findAvailablePosition(nodes,
\* dimensions, viewportBounds || null), where nodes and viewportBounds are the
\* props of its last render. call.nodes is that prop, call.created the nodes
\* handed to onAddNode since the prop was last refreshed from the store.
MaxFiles == 2

MaxCreated == 3

StoredNodes == { n \in PlacedNodes : HasRectangle(n) }

ControlViewports == { Rect(0, 0, 800, 600), Rect(0, 0, 2000, 1500) }

InitCreate ==
  /\ CanvasInit
  /\ LoadedBlank
  /\ \E nodes \in NodeLists(StoredNodes, MaxNodes), viewport \in ControlViewports :
       call = [fn |-> "createNodes", nodes |-> nodes, viewport |-> viewport,
               created |-> << >>]

\* The node object built by the controls: position and dimensions are objects.
NewNode(pos, dimensions) == [position |-> Obj(pos), dimensions |-> Obj(dimensions)]

\* k nodes of the given dimensions, each placed against the nodes prop of the
\* render the handler was created in.
CreateNodes(k, dimensions) ==
  LET placed == findAvailablePosition(call.nodes, dimensions, call.viewport)
  IN  /\ call.fn = "createNodes"
      /\ Len(call.nodes) + Len(call.created) + k <= MaxCreated
      /\ placed # Throws
      /\ call' = [call EXCEPT !.created =
                    @ \o [i \in 1..k |-> NewNode(placed.returned, dimensions)]]
      /\ UNCHANGED canvasVars

\* onDrop: one node of 300 x 200 per uploaded file, in one loop.
onDrop(files) == CreateNodes(files, Dim(300, 200))

\* handleCreateTextNode: one node of 200 x 100.
handleCreateTextNode == CreateNodes(1, Dim(200, 100))

\* The nodes query is refetched: the created nodes, stored with their position
\* and dimensions as JSON text, are now part of the nodes prop.
NodesRefetched ==
  /\ call.fn = "createNodes"
  /\ Len(call.created) > 0
  /\ call' = [call EXCEPT
       !.nodes = @ \o [i \in 1..Len(call.created) |->
                         [position |-> Json(call.created[i].position.v),
                          dimensions |-> Json(call.created[i].dimensions.v)]],
       !.created = << >>]
  /\ UNCHANGED canvasVars

NextCreate ==
  \/ \E files \in 1..MaxFiles : onDrop(files)
  \/ handleCreateTextNode
  \/ NodesRefetched

SpecCreate == InitCreate /\ [][NextCreate]_vars

\* C28: the nodes created through the controls since the node list was last
\* refreshed do not overlap each other.
C28_NewNodesDisjoint ==
  call.fn = "createNodes" =>
    \A i, j \in 1..Len(call.created) :
      i < j => ~Intersects(NodeEdges(call.created[i]), NodeEdges(call.created[j]))

\* ------------------------------------------------- a pan that leaves the canvas
\* The page as loaded, with a pan begun: the left button went down on the
\* canvas at a point of MousePts (handleMouseDown).  Events are counted from
\* the start of the pan.
InitPan ==
  /\ NodeInit
  /\ LoadedBlank
  /\ call = NoCall
  /\ scale = Num(1)
  /\ position = Origin
  /\ isDragging = TRUE
  /\ \E c \in MousePts :
       dragStart = Pt(Sub(Num(c.x), position.x), Sub(Num(c.y), position.y))
  /\ initialPinchDistance = Null
  /\ initialScale = Num(1)
  /\ uiTimer = << >>
  /\ dbTimer = << >>
  /\ anims = << >>
  /\ leaveListeners = << >>
  /\ persistCalls = << >>
  /\ writes = << >>
  /\ toasts = << >>
  /\ isInitialized = FALSE
  /\ touches = << >>
  /\ nEvents = 0
  /\ nextAnimId = 0
  /\ lastStarted = Null
  /\ lastOp = "mouseDown"
  /\ lastAnchor = NoAnchor
  /\ gestureSince = {}

NextPan ==
  \/ \E c \in MousePts, b \in {0, 2}, onCanvas \in BOOLEAN : handleMouseDown(c, b, onCanvas)
  \/ \E c \in MousePts : handleMouseMove(c)
  \/ handleMouseLeave
  \/ \E inside \in BOOLEAN : MouseUp(inside)
  \/ UiTimerFires
  \/ DbTimerFires
  \/ StoreSucceeds
  \/ StoreFails

SpecPan == InitPan /\ [][NextPan]_vars

\* Input has stopped, every timer has fired, no animation is in flight, and a
\* view config has been persisted.
Settled ==
  /\ uiTimer = << >> /\ dbTimer = << >> /\ anims = << >>
  /\ ~isDragging /\ initialPinchDistance = Null
  /\ persistCalls # << >>

\* C29: once input has stopped and all timers have fired, the last persisted
\* view config is the final Transform; and what the release of the mouse button
\* schedules for persisting, through a listener added by handleMouseLeave as
\* well, is the Transform at the end of the pan, not an older one.
C29_PersistsFinalTransform ==
  /\ Settled => persistCalls[Len(persistCalls)] = ViewConfig(scale, position)
  /\ lastOp = "mouseUp" => dbTimer = << ViewConfig(scale, position) >>

\* ------------------------------------------------------ the local-tier commit
\* The 150 ms timeout runs its callback.
LocalTierCommits == lastOp' = "uiTimer" /\ uiTimer # << >> /\ uiTimer' = << >>

\* C30: when the 150 ms timer fires, the scale and translation it writes are
\* the current ones: the commit leaves the Transform as it is.
C30_LocalCommitIsNoOp ==
  [][ LocalTierCommits => (scale' = scale /\ position' = position) ]_vars

\* ------------------------------------------------ overlapping animations
\* Navigation commands alone: animations that overlap, and no gesture.
NextNav ==
  \/ \E w \in NavTargets : handleNavigateToPosition(w)
  \/ AnimationFrames
  \/ UiTimerFires
  \/ DbTimerFires
  \/ StoreSucceeds
  \/ StoreFails

SpecNav == Init /\ [][NextNav]_vars

\* The animation started last began while another one was in flight, and no
\* animation is in flight any more.
OverlappingDone == anims = << >> /\ lastStarted # Null /\ lastStarted.overlaps

C32_WheelStateless ==
  [][ /\ \A w \in WheelDeltas :
           HandleWheelPan(w) =>
             /\ UNCHANGED gestureVars
             /\ scale' = scale
             /\ position' = Pt(Sub(position.x, Num(w.dx)), Sub(position.y, Num(w.dy)))
      /\ \A c \in MousePts, dy \in {-100, 100} :
           HandleWheelZoom(c, dy) =>
             /\ UNCHANGED gestureVars
             /\ scale' = Clamped(Mul(scale, IF dy > 0 THEN Rat(9, 10) ELSE Rat(11, 10)))
    ]_vars

\* A wheel pan has acted in the middle of a drag, after a wheel zoom.
C32_Witness ==
  /\ lastOp = "wheelPan"
  /\ isDragging
  /\ scale # Num(1)
  /\ position # Origin

\* ------------------------------------------------- placement: the spiral step
\* The calls of the spiral study: the nodes of PlacedNodes and one large node
\* that covers the first 50 spiral candidates of the large viewport but not
\* the 51st.
SpiralNodes ==
  PlacedNodes \cup { [position |-> Obj(IntPt(595, 345)), dimensions |-> Obj(Dim(800, 650))] }

SpiralViewports == { Rect(0, 0, 800, 600), Rect(0, 0, 200, 200), Rect(0, 0, 2000, 1500) }

InitSpiral ==
  /\ CanvasInit
  /\ LoadedBlank
  /\ \E nodes \in NodeLists(SpiralNodes, MaxNodes), dimensions \in NewDimensions,
        viewport \in SpiralViewports :
       call = [fn |-> "findAvailablePosition", nodes |-> nodes,
               dimensions |-> dimensions, viewport |-> viewport, result |-> Pending]

SpecSpiral == InitSpiral /\ [][NextPlace]_vars

\* Rectangle a lies entirely inside rectangle b (both by their edges).
Within(a, b) ==
  /\ Le(b.left, a.left) /\ Le(a.right, b.right)
  /\ Le(b.top, a.top) /\ Le(a.bottom, b.bottom)

ViewportEdges == Edges(RectPos(call.viewport), RectDim(call.viewport))

\* The search went past a colliding centre and returned a position.
SearchedPastCentre ==
  /\ PlaceSearched
  /\ hasCollision(call.nodes, call.dimensions,
                  placementCentre(call.dimensions, call.viewport)) = Returned(TRUE)
  /\ call.result # Throws

\* The spiral candidates that lie in the shrunk viewport and collide with no
\* node, among all the candidates of an endless spiral of MaxSpiral steps.
MaxSpiral == 72

SpiralFree ==
  { k \in 0 .. (MaxSpiral - 1) :
      /\ Within(Expanded(Edges(spiralPoint(call.dimensions, call.viewport, k),
                               call.dimensions), Num(NODE_PADDING)),
                ViewportEdges)
      /\ IsFree(spiralPoint(call.dimensions, call.viewport, k)) }

\* The position was returned by the spiral step: the first free candidate.
FromSpiral ==
  /\ SearchedPastCentre
  /\ \E k \in SpiralFree :
       /\ k < 50
       /\ \A j \in SpiralFree : k <= j
       /\ call.result.returned = spiralPoint(call.dimensions, call.viewport, k)

\* C33: the spiral step looks at no more than 50 candidates, and a position
\* it returns has its rectangle, grown by NODE_PADDING, inside the viewport
\* and meeting no node's rectangle; when none of the first 50 candidates
\* qualifies, the position comes from the later steps.
C33_SpiralBoundedAndClear ==
  SearchedPastCentre =>
    \/ /\ FromSpiral
       /\ Within(Expanded(Edges(call.result.returned, call.dimensions), Num(NODE_PADDING)),
                 ViewportEdges)
       /\ PlacedClear
    \/ /\ \A k \in SpiralFree : k >= 50
       /\ \/ \E g \in GridCells : call.result.returned = gridCell(call.viewport, g)
          \/ call.result.returned = placementFallback(call.viewport)

C33_Witness == FromSpiral /\ PlacedClear

\* ---------------------------------------------- placement: the grid fallback
\* The rectangle of the new node at c, grown by NODE_PADDING, meets no node's
\* rectangle.
NoPaddedCollision(c) ==
  \A i \in 1..Len(call.nodes) :
    HasRectangle(call.nodes[i]) =>
      ~Intersects(Expanded(Edges(c, call.dimensions), Num(NODE_PADDING)),
                  NodeEdges(call.nodes[i]))

\* The centre collides and none of the 50 spiral candidates lies in the
\* shrunk viewport without a collision.
GridReached ==
  /\ PlaceSearched
  /\ ~NoPaddedCollision(placementCentre(call.dimensions, call.viewport))
  /\ \A k \in SpiralAttempts :
       LET p == spiralPoint(call.dimensions, call.viewport, k)
       IN  \/ ~Within(Expanded(Edges(p, call.dimensions), Num(NODE_PADDING)), ViewportEdges)
           \/ ~NoPaddedCollision(p)

FreeGridCells == { g \in GridCells : NoPaddedCollision(gridCell(call.viewport, g)) }

\* C34: when the centre collides and the spiral finds nothing, the result is
\* the origin of the first grid cell in row-major order without a padded
\* collision, and the fallback (viewport origin + NODE_PADDING) only when
\* every grid cell origin collides.
C34_GridFirstFree ==
  GridReached =>
    call.result = IF FreeGridCells = {}
                  THEN Returned(placementFallback(call.viewport))
                  ELSE Returned(gridCell(call.viewport, Min(FreeGridCells)))

\* ------------------------------------------------------------ viewportBounds
\* The canvas component's viewportBounds state and its renders.  In this
\* study call holds
\*   container       the size getBoundingClientRect() reports
\*   viewportBounds  the state cell (useState({x: 0, y: 0, width: 0, height: 0}))
\*   deps            the [position, scale] the effects last ran with (Null: never)
\*   rendered        the scale, position, viewportBounds and screen size of the
\*                   last render; NodeList, the controls and the minimap got
\*                   that viewportBounds as a prop
ContainerSizes == { [width |-> 800, height |-> 600], [width |-> 400, height |-> 300] }

InitBounds ==
  /\ CanvasInit
  /\ LoadedBlank
  /\ call = [fn |-> "render",
             container |-> [width |-> ContainerRect.width, height |-> ContainerRect.height],
             viewportBounds |-> Rect(0, 0, 0, 0),
             deps |-> Null,
             rendered |-> Null]

\* { x: -position.x / scale, y: -position.y / scale, width: width / scale,
\*   height: height / scale }
BoundsOf(p, s, container) ==
  [x |-> Div(Neg(p.x), s), y |-> Div(Neg(p.y), s),
   width |-> Div(Num(container.width), s), height |-> Div(Num(container.height), s)]

Snapshot ==
  [scale |-> scale, position |-> position, viewportBounds |-> call.viewportBounds,
   container |-> call.container]

\* The component has rendered its current state and its effects have run.
EffectsFlushed ==
  /\ call.fn = "render"
  /\ call.rendered = Snapshot
  /\ call.deps = [position |-> position, scale |-> scale]

\* A state update is followed by a render: the children get the viewportBounds
\* of the state as it is now.
Render ==
  /\ call.fn = "render"
  /\ call.rendered # Snapshot
  /\ call' = [call EXCEPT !.rendered = Snapshot]
  /\ UNCHANGED canvasVars

\* After the render, the effect with dependencies [position, scale] runs if
\* one of them changed (and on mount): setViewportBounds, and the resize
\* listener is registered anew.
ViewportBoundsEffect ==
  /\ call.fn = "render"
  /\ call.rendered = Snapshot
  /\ call.deps # [position |-> position, scale |-> scale]
  /\ call' = [call EXCEPT
       !.viewportBounds = BoundsOf(position, scale, call.container),
       !.deps = [position |-> position, scale |-> scale]]
  /\ UNCHANGED canvasVars

\* The window is resized: handleResize runs with the position and scale of
\* the render in which it was registered.
handleResize(size) ==
  /\ EffectsFlushed
  /\ size # call.container
  /\ call' = [call EXCEPT
       !.container = size,
       !.viewportBounds = BoundsOf(call.deps.position, call.deps.scale, size)]
  /\ UNCHANGED canvasVars

\* Input is handled once the previous update has been rendered and its
\* effects have run.
NextBounds ==
  \/ Render
  \/ ViewportBoundsEffect
  \/ \E size \in ContainerSizes : handleResize(size)
  \/ EffectsFlushed /\ \E c \in MousePts, dy \in {-100, 100} : HandleWheelZoom(c, dy)
  \/ EffectsFlushed /\ \E w \in WheelDeltas : HandleWheelPan(w)

SpecBounds == InitBounds /\ [][NextBounds]_vars

\* C35: once every Transform change and resize has been processed,
\* viewportBounds is the inverse transform of the screen rectangle, and the
\* bounds a render hands to the culler and the placement engine are those of
\* the Transform of that render.
C35_BoundsFollowTransform ==
  call.fn = "render" =>
    /\ EffectsFlushed => call.viewportBounds = BoundsOf(position, scale, call.container)
    /\ call.rendered # Null =>
         call.rendered.viewportBounds =
           BoundsOf(call.rendered.position, call.rendered.scale, call.rendered.container)
====
